---- MODULE Spec2Model ----
(***************************************************************************)
(* A model of xsc-patcher: the patch engine (PatcherCore.applyToBuffer and *)
(* Patcher.applyToBuffer), the script parser (XscParserCore.parseString),  *)
(* the file entry points (Patcher.applyToFile, XscParser.parse,            *)
(* BackupManager.createBackup) and the driver (main).  Byte buffers are    *)
(* sequences of numbers; offsets are 0-based as in the source, so offset i *)
(* is element i + 1.                                                       *)
(***************************************************************************)
EXTENDS Integers, Sequences, FiniteSets, TLC

VARIABLES
    pc,                     \* position of the running call
    impl,                   \* "core": PatcherCore, "node": Patcher
    targetBuffer,           \* the buffer being patched (mutated in place)
    replacements,           \* the rule list: the engine's input, the parser's result
    ruleIndex,              \* 1-based position of the rule forEach is at
    startIndex,             \* the search cursor of the current rule
    currentReplacedInPair,  \* matches of the current rule so far
    totalReplacedCount,     \* matches of all finished rules
    modificationMade,       \* whether any finished rule matched
    originalLength,         \* targetBuffer.length at entry
    returned,               \* "none" while running, then "buffer" or "null"
    entryBuffer,            \* history: targetBuffer as it was at the call
    passBuffer,             \* history: targetBuffer when the current rule began
    matched,                \* history: offsets matched by the current rule
    ruleCounts,             \* history: match count of every finished rule
    content,                \* the script text given to parseString
    lines,                  \* content.split(/\r?\n/)
    index,                  \* 0-based index of the next line of the loop
    warnings,               \* the console.warn diagnostics: <<lineNumber, kind>>
    targetStatus,           \* the target path: "file", "missing" or "directory"
    targetBytes,            \* the bytes of the target file on disk
    backupExists,           \* whether target + '.bak' exists
    backupBytes,            \* the bytes of target + '.bak' on disk
    scriptStatus,           \* the script path: "file", "missing" or "directory"
    scriptText,             \* the text of the script file on disk
    backupFile,             \* what createBackup returned: "none", "null", "path"
    fileResult,             \* what applyToFile returned: "none", "true", "false"
    exitCode,               \* the exit status of the driver: -1 while it runs
    argc,                   \* process.argv.slice(2).length of the driver run
    runs,                   \* the driver runs started so far
    startBytes,             \* history: targetBytes when the run or call began
    initialBytes,           \* history: targetBytes before the first run or call
    trace                   \* history: the file operations of the run or call

engineVars == <<impl, targetBuffer, ruleIndex, startIndex, currentReplacedInPair,
                totalReplacedCount, modificationMade, originalLength, returned,
                entryBuffer, passBuffer, matched, ruleCounts>>

parserVars == <<content, lines, index, warnings>>

fileVars == <<targetStatus, targetBytes, backupExists, backupBytes, scriptStatus,
              scriptText, backupFile, fileResult, exitCode, argc, runs, startBytes,
              initialBytes, trace>>

vars == <<pc, replacements, engineVars, parserVars, fileVars>>

----------------------------------------------------------------------------
(* Bounds of the model.                                                    *)

\* longest target buffer
MaxBuf == 4
\* most pattern bytes in one rule list: the sum over its rules of the longer
\* of len(find) and len(replace)
MaxRuleBytes == 2

\* the byte values buffers and patterns are drawn from (0x41, 0x42)
Byte == {65, 66}

Min(S) == CHOOSE x \in S : \A y \in S : x <= y

SeqsUpTo(S, n) == UNION {[1..k -> S] : k \in 0..n}

Buffers == SeqsUpTo(Byte, MaxBuf)

\* the rule lists of non-empty find and replace patterns, of equal length
\* (what the parser produces) or not (what a caller may pass)
RECURSIVE RuleListsWithin(_)
RuleListsWithin(budget) ==
    {<<>>} \cup
    UNION {{<<[find |-> f, replace |-> r]>> \o rest :
               f \in [1..km[1] -> Byte], r \in [1..km[2] -> Byte],
               rest \in RuleListsWithin(budget - (IF km[1] > km[2] THEN km[1] ELSE km[2]))} :
           km \in (1..budget) \X (1..budget)}

\* a rule list as the parser numbers it: lineNumber is the rule's script line
Numbered(rs) ==
    [i \in 1..Len(rs) |->
        [find |-> rs[i].find, replace |-> rs[i].replace, lineNumber |-> i]]

RuleSets == {Numbered(rs) : rs \in RuleListsWithin(MaxRuleBytes)}

----------------------------------------------------------------------------
(* The patch engine.                                                       *)

\* mutant: the inner loop stops after the first byte
MatchesAtFirstByte(haystack, needle, i) == haystack[i + 1] = needle[1]

\* haystack[i + j] === needle[j] for every j: needle occurs at offset i
MatchesAt(haystack, needle, i) ==
    \A j \in 0..(Len(needle) - 1) : haystack[i + j + 1] = needle[j + 1]

\* mutant: the outer loop runs to the last byte of the haystack
MaxStartAtEnd(haystack, needle) == Len(haystack) - 1

\* mutant: the outer loop stops one start early (i < maxStart)
MaxStartShort(haystack, needle) == Len(haystack) - Len(needle) - 1

\* maxStart = haystack.length - needle.length
MaxStart(haystack, needle) == Len(haystack) - Len(needle)

\* the offsets i + j of the haystack that the two loops of findSubarray index
ReadOffsets(haystack, needle, fromIndex) ==
    {i + j : i \in fromIndex..MaxStart(haystack, needle), j \in 0..(Len(needle) - 1)}

\* findSubarray: the lowest i in fromIndex..maxStart where needle occurs, or -1
findSubarray(haystack, needle, fromIndex) ==
    IF Len(needle) = 0 THEN -1
    ELSE LET maxStart == MaxStart(haystack, needle)
             hits == {i \in fromIndex..maxStart : MatchesAt(haystack, needle, i)}
         IN  IF hits = {} THEN -1 ELSE Min(hits)

\* Buffer.indexOf(value, byteOffset) with a Buffer value
indexOf(haystack, needle, byteOffset) ==
    IF Len(needle) = 0
    THEN IF byteOffset < Len(haystack) THEN byteOffset ELSE Len(haystack)
    ELSE LET hits == {i \in byteOffset..(Len(haystack) - Len(needle)) :
                         MatchesAt(haystack, needle, i)}
         IN  IF hits = {} THEN -1 ELSE Min(hits)

\* the search call of the while condition
Search(im, haystack, needle, fromIndex) ==
    IF im = "core" THEN findSubarray(haystack, needle, fromIndex)
    ELSE indexOf(haystack, needle, fromIndex)

\* mutant: the match is spliced out and replace inserted, one byte too many cut
OverwriteSplice(buffer, replace, foundIndex) ==
    SubSeq(buffer, 1, foundIndex) \o replace
        \o SubSeq(buffer, foundIndex + Len(replace) + 2, Len(buffer))

\* mutant: the buffer is cut off behind the bytes written
OverwriteTruncating(buffer, replace, foundIndex) ==
    SubSeq(buffer, 1, foundIndex) \o replace

\* targetBuffer.set(replace, foundIndex) / replace.copy(targetBuffer, foundIndex):
\* the bytes of replace written over the buffer from offset foundIndex on
Overwrite(buffer, replace, foundIndex) ==
    [k \in 1..Len(buffer) |->
        IF k > foundIndex /\ k <= foundIndex + Len(replace)
        THEN replace[k - foundIndex] ELSE buffer[k]]

\* mutant: the cursor moves one byte, so written bytes are scanned again
NextStartOverlapping(foundIndex, replace) == foundIndex + 1

\* TypedArray.prototype.set throws a RangeError when the source does not fit
\* at the offset; Buffer.prototype.copy writes the bytes that fit
SetThrows(im, buffer, replace, foundIndex) ==
    im = "core" /\ foundIndex + Len(replace) > Len(buffer)

\* startIndex = foundIndex + replace.length
NextStart(foundIndex, replace) == foundIndex + Len(replace)

\* mutant: every rule searches a copy of the buffer taken at entry
HaystackAtEntry == entryBuffer

\* the buffer the while condition searches
Haystack == targetBuffer

\* mutant: a rule with no match counts as a modification
RuleMatchedAlways(count) == count >= 0

\* currentReplacedInPair > 0: the rule counts as having modified the buffer
RuleMatched(count) == count > 0

\* the while loop of one rule run to its end on buffer, from cursor start
RECURSIVE RulePassFrom(_, _, _, _, _)
RulePassFrom(im, buffer, rule, start, count) ==
    LET foundIndex == Search(im, buffer, rule.find, start)
    IN  IF foundIndex = -1
        THEN [buffer |-> buffer, count |-> count, threw |-> FALSE]
        ELSE IF SetThrows(im, buffer, rule.replace, foundIndex)
        THEN [buffer |-> buffer, count |-> count, threw |-> TRUE]
        ELSE RulePassFrom(im, Overwrite(buffer, rule.replace, foundIndex), rule,
                          NextStart(foundIndex, rule.replace), count + 1)

\* one rule's callback: currentReplacedInPair = 0, startIndex = 0, then the loop
RulePass(im, buffer, rule) == RulePassFrom(im, buffer, rule, 0, 0)

\* replacements.forEach over the buffer: the bytes the call leaves in it,
\* and whether a callback threw and ended it
RECURSIVE ApplyRules(_, _, _)
ApplyRules(im, buffer, rules) ==
    IF rules = <<>> THEN [buffer |-> buffer, threw |-> FALSE]
    ELSE LET pass == RulePass(im, buffer, Head(rules))
         IN  IF pass.threw THEN [buffer |-> pass.buffer, threw |-> TRUE]
             ELSE ApplyRules(im, pass.buffer, Tail(rules))

\* replacements.forEach over the buffer: currentReplacedInPair of each rule
RECURSIVE CountRules(_, _, _)
CountRules(im, buffer, rules) ==
    IF rules = <<>> THEN <<>>
    ELSE LET pass == RulePass(im, buffer, Head(rules))
         IN  <<pass.count>> \o (IF pass.threw THEN <<>>
                                ELSE CountRules(im, pass.buffer, Tail(rules)))

CurrentRule == replacements[ruleIndex]

\* mutant: nothing to do is reported as the fatal signal
NoRulesResultNull == "null"

\* return targetBuffer of the empty guard
NoRulesResult == "buffer"

\* applyToBuffer entry: the empty guard, then the locals and the first rule
ApplyStart ==
    /\ pc = "apply_start"
    /\ IF Len(replacements) = 0
       THEN /\ pc' = "apply_done"
            /\ returned' = NoRulesResult
            /\ UNCHANGED <<originalLength, totalReplacedCount, modificationMade,
                           ruleIndex, startIndex, currentReplacedInPair>>
       ELSE /\ pc' = "apply_scan"
            /\ originalLength' = Len(targetBuffer)
            /\ totalReplacedCount' = 0
            /\ modificationMade' = FALSE
            /\ ruleIndex' = 1
            /\ currentReplacedInPair' = 0
            /\ startIndex' = 0
            /\ UNCHANGED returned
    /\ UNCHANGED <<impl, targetBuffer, replacements, entryBuffer, passBuffer,
                   matched, ruleCounts>>
    /\ UNCHANGED parserVars
    /\ UNCHANGED fileVars

\* one iteration of the while loop: a match is overwritten, the cursor moves
\* on; or the write throws and the exception leaves applyToBuffer
RuleMatch ==
    /\ pc = "apply_scan"
    /\ LET foundIndex == Search(impl, Haystack, CurrentRule.find, startIndex)
       IN  /\ foundIndex # -1
           /\ IF SetThrows(impl, targetBuffer, CurrentRule.replace, foundIndex)
              THEN /\ pc' = "apply_threw"
                   /\ UNCHANGED <<targetBuffer, currentReplacedInPair, startIndex,
                                  matched>>
              ELSE /\ targetBuffer' =
                          Overwrite(targetBuffer, CurrentRule.replace, foundIndex)
                   /\ currentReplacedInPair' = currentReplacedInPair + 1
                   /\ startIndex' = NextStart(foundIndex, CurrentRule.replace)
                   /\ matched' = Append(matched, foundIndex)
                   /\ pc' = pc
    /\ UNCHANGED <<impl, replacements, ruleIndex, totalReplacedCount,
                   modificationMade, originalLength, returned, entryBuffer,
                   passBuffer, ruleCounts>>
    /\ UNCHANGED parserVars
    /\ UNCHANGED fileVars

\* mutant: forEach stops one rule early
MoreRulesButLast(position, count) == position < count - 1

\* forEach has another element to visit
MoreRules(position, count) == position < count

\* the while loop ends: the rule's count is added, forEach goes to the next rule
RuleDone ==
    /\ pc = "apply_scan"
    /\ Search(impl, Haystack, CurrentRule.find, startIndex) = -1
    /\ IF RuleMatched(currentReplacedInPair)
       THEN /\ totalReplacedCount' = totalReplacedCount + currentReplacedInPair
            /\ modificationMade' = TRUE
       ELSE UNCHANGED <<totalReplacedCount, modificationMade>>
    /\ ruleCounts' = Append(ruleCounts, currentReplacedInPair)
    /\ IF MoreRules(ruleIndex, Len(replacements))
       THEN /\ ruleIndex' = ruleIndex + 1
            /\ currentReplacedInPair' = 0
            /\ startIndex' = 0
            /\ passBuffer' = targetBuffer
            /\ matched' = <<>>
            /\ pc' = "apply_scan"
       ELSE /\ pc' = "apply_check"
            /\ UNCHANGED <<ruleIndex, currentReplacedInPair, startIndex,
                           passBuffer, matched>>
    /\ UNCHANGED <<impl, targetBuffer, replacements, originalLength, returned,
                   entryBuffer>>
    /\ UNCHANGED parserVars
    /\ UNCHANGED fileVars

\* mutant: the comparison is turned around (=== for !==)
LengthChangedInverted(length, original) == length = original

\* targetBuffer.length !== originalLength
LengthChanged(length, original) == length # original

\* after forEach: the length check, then the buffer is returned
ApplyFinish ==
    /\ pc = "apply_check"
    /\ returned' = IF LengthChanged(Len(targetBuffer), originalLength)
                   THEN "null" ELSE "buffer"
    /\ pc' = "apply_done"
    /\ UNCHANGED <<impl, targetBuffer, replacements, ruleIndex, startIndex,
                   currentReplacedInPair, totalReplacedCount, modificationMade,
                   originalLength, entryBuffer, passBuffer, matched, ruleCounts>>
    /\ UNCHANGED parserVars
    /\ UNCHANGED fileVars

\* no file is touched: the state of a call that is given its bytes or text
NoFiles ==
    /\ targetStatus = "missing"
    /\ targetBytes = <<>>
    /\ backupExists = FALSE
    /\ backupBytes = <<>>
    /\ scriptStatus = "missing"
    /\ scriptText = <<>>
    /\ backupFile = "none"
    /\ fileResult = "none"
    /\ exitCode = -1
    /\ argc = 0
    /\ runs = 0
    /\ startBytes = <<>>
    /\ initialBytes = <<>>
    /\ trace = <<>>

InitPatch ==
    /\ pc = "apply_start"
    /\ impl \in {"core", "node"}
    /\ targetBuffer \in Buffers
    /\ replacements \in RuleSets
    /\ ruleIndex = 0
    /\ startIndex = 0
    /\ currentReplacedInPair = 0
    /\ totalReplacedCount = 0
    /\ modificationMade = FALSE
    /\ originalLength = 0
    /\ returned = "none"
    /\ entryBuffer = targetBuffer
    /\ passBuffer = targetBuffer
    /\ matched = <<>>
    /\ ruleCounts = <<>>
    /\ content = <<>>
    /\ lines = <<>>
    /\ index = 0
    /\ warnings = <<>>
    /\ NoFiles

NextPatch == ApplyStart \/ RuleMatch \/ RuleDone \/ ApplyFinish

\* one applyToBuffer call on every buffer and rule list within the bounds
SpecPatch == InitPatch /\ [][NextPatch]_vars

\* the call runs on: synchronous code takes its next step while it has one
SpecPatchFair == SpecPatch /\ WF_vars(NextPatch)

\* the while condition is false: the current rule's pass is over
LoopExits ==
    /\ pc = "apply_scan"
    /\ Search(impl, Haystack, CurrentRule.find, startIndex) = -1

----------------------------------------------------------------------------
(* The script parser.  Text is a sequence of one-character strings.        *)

\* most lines of a script
MaxLines == 2

Keyword == <<"R", "E", "P", "L", "A", "C", "E", "A", "L", "L">>

\* 'REPLACEALL '
Prefix == Keyword \o <<" ">>

\* ' BY '
BySeparator == <<" ", "B", "Y", " ">>

\* what String.prototype.trim removes, of the characters scripts are made of
Whitespace == {" ", "\t", "\r", "\n"}

LowerDigits == <<"0", "1", "2", "3", "4", "5", "6", "7", "8", "9",
                 "a", "b", "c", "d", "e", "f">>

UpperDigits == <<"0", "1", "2", "3", "4", "5", "6", "7", "8", "9",
                 "A", "B", "C", "D", "E", "F">>

\* mutant: only lower-case digits are taken as hex digits
IsHexDigitLowerOnly(c) == \E d \in 1..16 : LowerDigits[d] = c

\* the digits parseInt(_, 16) accepts
IsHexDigit(c) == \E d \in 1..16 : LowerDigits[d] = c \/ UpperDigits[d] = c

HexDigitValue(c) ==
    (CHOOSE d \in 1..16 : LowerDigits[d] = c \/ UpperDigits[d] = c) - 1

\* Number.parseInt(byte, 16) of a two-character string of letters and
\* digits: the leading hex digits are read; <<>> stands for NaN
parseInt16(byte) ==
    IF ~IsHexDigit(byte[1]) THEN <<>>
    ELSE IF Len(byte) > 1 /\ IsHexDigit(byte[2])
         THEN <<16 * HexDigitValue(byte[1]) + HexDigitValue(byte[2])>>
         ELSE <<HexDigitValue(byte[1])>>

\* bytes[i] = value: a Uint8Array element stores NaN as 0
ToUint8(value) == IF value = <<>> THEN 0 ELSE value[1] % 256

\* str.replace(/ /g, '')
RemoveSpaces(str) == SelectSeq(str, LAMBDA c : c # " ")

\* mutant: the odd-length check is dropped
hexToBytesThrowsNever(hex) == FALSE

\* hexToBytes throws: the normalized string has an odd length
hexToBytesThrows(hex) == Len(RemoveSpaces(hex)) % 2 # 0

\* hexToBytes when it does not throw
hexToBytes(hex) ==
    LET normalized == RemoveSpaces(hex)
    IN  [i \in 1..(Len(normalized) \div 2) |->
            ToUint8(parseInt16(SubSeq(normalized, 2 * i - 1, 2 * i)))]

\* str.trim()
RECURSIVE trim(_)
trim(str) ==
    IF str = <<>> THEN str
    ELSE IF Head(str) \in Whitespace THEN trim(Tail(str))
    ELSE IF str[Len(str)] \in Whitespace THEN trim(SubSeq(str, 1, Len(str) - 1))
    ELSE str

\* mutant: only the length of the prefix is compared
startsWithAnything(str, prefix) == Len(str) >= Len(prefix)

\* str.startsWith(prefix)
startsWith(str, prefix) ==
    Len(str) >= Len(prefix) /\ SubSeq(str, 1, Len(prefix)) = prefix

\* str.split(separator) with a non-empty string separator
RECURSIVE split(_, _)
split(str, separator) ==
    LET at == {k \in 1..(Len(str) - Len(separator) + 1) :
                  SubSeq(str, k, k + Len(separator) - 1) = separator}
    IN  IF at = {} THEN <<str>>
        ELSE <<SubSeq(str, 1, Min(at) - 1)>>
                 \o split(SubSeq(str, Min(at) + Len(separator), Len(str)), separator)

\* content.split(/\r?\n/)
RECURSIVE splitLines(_)
splitLines(str) ==
    LET at == {k \in 1..Len(str) : str[k] = "\n"}
    IN  IF at = {} THEN <<str>>
        ELSE LET n == Min(at)
                 end == IF n > 1 /\ str[n - 1] = "\r" THEN n - 2 ELSE n - 1
             IN  <<SubSeq(str, 1, end)>> \o splitLines(SubSeq(str, n + 1, Len(str)))

\* mutant: a rule is refused only when find is the longer one
LengthMismatchFindLonger(findBytes, replaceBytes) == Len(findBytes) > Len(replaceBytes)

\* mutant: the length check is dropped
LengthMismatchNever(findBytes, replaceBytes) == FALSE

\* findBytes.length !== replaceBytes.length
LengthMismatch(findBytes, replaceBytes) == Len(findBytes) # Len(replaceBytes)

\* the body of the line loop for one line: what becomes of the line
\*   ignored: no REPLACEALL prefix         format: not two parts around ' BY '
\*   empty: an empty hex string            hex: hexToBytes threw, caught
\*   mismatch: decoded lengths differ      rule: a rule is pushed
LineOutcome(line, lineNumber) ==
    LET trimmedLine == trim(line)
        instruction == SubSeq(trimmedLine, Len(Prefix) + 1, Len(trimmedLine))
        parts == split(instruction, BySeparator)
        findHex == RemoveSpaces(parts[1])
        replaceHex == RemoveSpaces(parts[2])
        findBytes == hexToBytes(findHex)
        replaceBytes == hexToBytes(replaceHex)
        none == <<>>
    IN  IF ~startsWith(trimmedLine, Prefix) THEN [kind |-> "ignored", rules |-> none]
        ELSE IF Len(parts) # 2 THEN [kind |-> "format", rules |-> none]
        ELSE IF findHex = <<>> \/ replaceHex = <<>> THEN [kind |-> "empty", rules |-> none]
        ELSE IF hexToBytesThrows(findHex) \/ hexToBytesThrows(replaceHex)
             THEN [kind |-> "hex", rules |-> none]
        ELSE IF LengthMismatch(findBytes, replaceBytes)
             THEN [kind |-> "mismatch", rules |-> none]
        ELSE [kind |-> "rule",
              rules |-> <<[find |-> findBytes, replace |-> replaceBytes,
                           lineNumber |-> lineNumber]>>]

\* mutant: a line that is warned about ends the loop (break for continue)
AfterLineBreakOnWarning(i, kind, n) == IF kind \in {"ignored", "rule"} THEN i + 1 ELSE n

\* the index the loop goes on with after line i: continue, or the next turn
AfterLine(i, kind, n) == i + 1

\* mutant: the 0-based index of the loop is taken as the line number
LineNumberZeroBased(i) == i

\* lineNumber = index + 1
LineNumberOf(i) == i + 1

\* the line loop from 0-based index i on: the rules it pushes
RECURSIVE parseLinesFrom(_, _)
parseLinesFrom(ls, i) ==
    IF i >= Len(ls) THEN <<>>
    ELSE LET outcome == LineOutcome(ls[i + 1], LineNumberOf(i))
         IN  outcome.rules \o parseLinesFrom(ls, AfterLine(i, outcome.kind, Len(ls)))

\* parseString(content): the rule list it returns
parseString(text) == parseLinesFrom(splitLines(text), 0)

\* parseString entry: replacements = [], lines = content.split(/\r?\n/)
ParseStart ==
    /\ pc = "parse_start"
    /\ replacements' = <<>>
    /\ lines' = splitLines(content)
    /\ index' = 0
    /\ pc' = "parse_loop"
    /\ UNCHANGED <<content, warnings, engineVars, fileVars>>

\* one turn of the line loop
ParseLine ==
    /\ pc = "parse_loop"
    /\ index < Len(lines)
    /\ LET lineNumber == LineNumberOf(index)
           outcome == LineOutcome(lines[index + 1], lineNumber)
       IN  /\ replacements' = replacements \o outcome.rules
           /\ warnings' = IF outcome.kind \in {"ignored", "rule"} THEN warnings
                          ELSE Append(warnings, <<lineNumber, outcome.kind>>)
           /\ index' = AfterLine(index, outcome.kind, Len(lines))
    /\ UNCHANGED <<pc, content, lines, engineVars, fileVars>>

\* the loop is over: the summary is logged and replacements returned
ParseFinish ==
    /\ pc = "parse_loop"
    /\ index >= Len(lines)
    /\ pc' = "parse_done"
    /\ returned' = "rules"
    /\ warnings' = IF Len(replacements) = 0 THEN Append(warnings, <<0, "norules">>)
                   ELSE warnings
    /\ UNCHANGED <<replacements, content, lines, index, impl, targetBuffer, ruleIndex,
                   startIndex, currentReplacedInPair, totalReplacedCount,
                   modificationMade, originalLength, entryBuffer, passBuffer,
                   matched, ruleCounts>>
    /\ UNCHANGED fileVars

\* the hex segments script lines are built from: one byte, one byte with a
\* letter digit, two bytes with an upper-case digit and a space, an odd
\* number of digits, and a character that is no hex digit after and before
\* a digit
HexSegments ==
    {<<"4", "1">>, <<"4", "a">>, <<"4", "A", " ", "4", "1">>, <<"4">>,
     <<"4", "g">>, <<"g", "4">>}

InstructionLines == {Prefix \o f \o BySeparator \o r : f, r \in HexSegments}

BlankLine == <<>>

\* REPLACEALL 41 BY 4a
PlainLine == Prefix \o <<"4", "1">> \o BySeparator \o <<"4", "a">>

\* REPLACEALL 4142
NoSeparatorLine == Prefix \o <<"4", "1", "4", "2">>

\* REPLACEALL 4141 BY BY 4a: ' BY ' begins twice, sharing a space
OverlappingByLine ==
    Prefix \o <<"4", "1", "4", "1">> \o <<" ", "B", "Y", " ", "B", "Y", " ">> \o <<"4", "a">>

\* REPLACEALL 4141 BY 4BY 4: the letters BY inside the replace segment
ByInSegmentLine ==
    Prefix \o <<"4", "1", "4", "1">> \o BySeparator \o <<"4", "B", "Y", " ", "4">>

OtherLines ==
    {BlankLine,
     NoSeparatorLine,
     <<"A", "D", "R", " ", "0">>,
     Prefix,
     Prefix \o <<"4", "1">> \o BySeparator \o <<"4", "a">> \o BySeparator \o <<"4", "1">>,
     Prefix \o <<" ">> \o BySeparator \o <<"4", "1">>,
     <<"r", "e", "p", "l", "a", "c", "e", "a", "l", "l", " ", "4", "1">>
         \o BySeparator \o <<"4", "a">>,
     <<";", " ">> \o Prefix \o <<"4", "1">> \o BySeparator \o <<"4", "a">>,
     OverlappingByLine,
     ByInSegmentLine,
     Prefix \o <<"4", "1", "4", "1">> \o BySeparator \o <<"4", "1">>
         \o BySeparator \o <<"4", "a">>,
     Keyword \o <<"4", "1">> \o BySeparator \o <<"4", "a">>,
     <<" ", "\t">> \o Prefix \o <<"4", "1">> \o BySeparator \o <<"4", "a">> \o <<" ">>}

ScriptLines == InstructionLines \cup OtherLines

\* the lines that surround the line under study: blank, valid, malformed
BasicLines == {BlankLine, PlainLine, NoSeparatorLine}

\* the scripts of n lines: one line is any of ScriptLines, the others basic
ScriptsOf(n) ==
    {[i \in 1..n |-> IF i = at THEN line ELSE others[i]] :
        at \in 1..n, line \in ScriptLines, others \in [1..n -> BasicLines]}

\* the line boundaries of a script
LineBreaks == {<<"\n">>, <<"\r", "\n">>}

RECURSIVE join(_, _)
join(ls, eol) ==
    IF Len(ls) = 0 THEN <<>>
    ELSE IF Len(ls) = 1 THEN ls[1]
    ELSE ls[1] \o eol \o join(Tail(ls), eol)

\* the scripts of at most MaxLines lines, in either line-break style
Contents ==
    {join(ls, eol) : ls \in UNION {ScriptsOf(n) : n \in 1..MaxLines}, eol \in LineBreaks}

InitParse ==
    /\ pc = "parse_start"
    /\ content \in Contents
    /\ lines = <<>>
    /\ index = 0
    /\ warnings = <<>>
    /\ replacements = <<>>
    /\ returned = "none"
    /\ impl = "core"
    /\ targetBuffer = <<>>
    /\ ruleIndex = 0
    /\ startIndex = 0
    /\ currentReplacedInPair = 0
    /\ totalReplacedCount = 0
    /\ modificationMade = FALSE
    /\ originalLength = 0
    /\ entryBuffer = <<>>
    /\ passBuffer = <<>>
    /\ matched = <<>>
    /\ ruleCounts = <<>>
    /\ NoFiles

NextParse == ParseStart \/ ParseLine \/ ParseFinish

\* one parseString call on every script within the bounds
SpecParse == InitParse /\ [][NextParse]_vars

----------------------------------------------------------------------------
(* Patcher.applyToFile: read the target, patch it in memory, write it back. *)
(* A file operation that can throw (EACCES, ENOSPC, ...) does so or not.    *)

PathStatuses == {"file", "missing", "directory"}

\* mutant: only fs.existsSync is asked, a directory passes
IsFileOrDirectory(status) == status # "missing"

\* fs.existsSync(path) && fs.statSync(path).isFile()
IsFile(status) == status = "file"

\* mutant: the bytes read are written back without the applyToBuffer call
SkipApplyToBuffer == "apply_done"

\* this.applyToBuffer(contentBuffer, replacements): where the call begins
CallApplyToBuffer == "apply_start"

\* patchedBuffer === null
FatalSignal(result) == result = "null"

\* the target after fs.writeFileSync threw: as it was, or opened and emptied
AfterFailedWrite(bytes) == {bytes, <<>>}

\* applyToFile up to the applyToBuffer call: the empty guard, the check of
\* the path, the read
FileRead ==
    /\ pc = "file_start"
    /\ IF Len(replacements) = 0
       THEN /\ fileResult' = "true"
            /\ pc' = "file_done"
            /\ UNCHANGED <<trace, targetBuffer, entryBuffer, passBuffer>>
       ELSE IF ~IsFile(targetStatus)
       THEN /\ fileResult' = "false"
            /\ pc' = "file_done"
            /\ trace' = Append(trace, "absent")
            /\ UNCHANGED <<targetBuffer, entryBuffer, passBuffer>>
       ELSE \E ok \in BOOLEAN :
                IF ok
                THEN /\ targetBuffer' = targetBytes
                     /\ entryBuffer' = targetBytes
                     /\ passBuffer' = targetBytes
                     /\ trace' = Append(trace, "read")
                     /\ pc' = CallApplyToBuffer
                     /\ UNCHANGED fileResult
                ELSE /\ fileResult' = "false"
                     /\ pc' = "file_done"
                     /\ trace' = Append(trace, "readfail")
                     /\ UNCHANGED <<targetBuffer, entryBuffer, passBuffer>>
    /\ matched' = <<>>
    /\ ruleCounts' = <<>>
    /\ returned' = "none"
    /\ UNCHANGED <<impl, replacements, ruleIndex, startIndex, currentReplacedInPair,
                   totalReplacedCount, modificationMade, originalLength>>
    /\ UNCHANGED parserVars
    /\ UNCHANGED <<targetStatus, targetBytes, backupExists, backupBytes, scriptStatus,
                   scriptText, backupFile, exitCode, argc, runs, startBytes, initialBytes>>

\* applyToFile after applyToBuffer returned: the null check, then the write
FileWrite ==
    /\ pc = "apply_done"
    /\ IF FatalSignal(returned)
       THEN /\ fileResult' = "false"
            /\ UNCHANGED <<targetBytes, trace>>
       ELSE \E ok \in BOOLEAN :
                IF ok
                THEN /\ targetBytes' = targetBuffer
                     /\ fileResult' = "true"
                     /\ trace' = Append(trace, "write")
                ELSE /\ targetBytes' \in AfterFailedWrite(targetBytes)
                     /\ fileResult' = "false"
                     /\ trace' = Append(trace, "writefail")
    /\ pc' = "file_done"
    /\ UNCHANGED <<replacements, engineVars, parserVars>>
    /\ UNCHANGED <<targetStatus, backupExists, backupBytes, scriptStatus, scriptText,
                   backupFile, exitCode, argc, runs, startBytes, initialBytes>>

InitFile ==
    /\ pc = "file_start"
    /\ impl = "node"
    /\ replacements \in RuleSets
    /\ targetStatus \in PathStatuses
    /\ targetBytes \in (IF IsFile(targetStatus) THEN Buffers ELSE {<<>>})
    /\ startBytes = targetBytes
    /\ initialBytes = targetBytes
    /\ targetBuffer = <<>>
    /\ entryBuffer = <<>>
    /\ passBuffer = <<>>
    /\ ruleIndex = 0
    /\ startIndex = 0
    /\ currentReplacedInPair = 0
    /\ totalReplacedCount = 0
    /\ modificationMade = FALSE
    /\ originalLength = 0
    /\ returned = "none"
    /\ matched = <<>>
    /\ ruleCounts = <<>>
    /\ content = <<>>
    /\ lines = <<>>
    /\ index = 0
    /\ warnings = <<>>
    /\ backupExists = FALSE
    /\ backupBytes = <<>>
    /\ scriptStatus = "missing"
    /\ scriptText = <<>>
    /\ backupFile = "none"
    /\ fileResult = "none"
    /\ exitCode = -1
    /\ argc = 0
    /\ runs = 0
    /\ trace = <<>>

NextFile == FileRead \/ ApplyStart \/ RuleMatch \/ RuleDone \/ ApplyFinish \/ FileWrite

\* one applyToFile call on every target and rule list within the bounds
SpecFile == InitFile /\ [][NextFile]_vars

----------------------------------------------------------------------------
(* The driver: main() with BackupManager.createBackup and XscParser.parse. *)

\* longest target file of a driver run
MaxFile == 2
\* most consecutive runs of the driver on the same files
MaxRuns == 2

\* REPLACEALL 4a BY 41
BackLine == Prefix \o <<"4", "a">> \o BySeparator \o <<"4", "1">>

\* the lines of the scripts the driver is run with: a rule 41 -> 4a, the
\* rule back, a malformed line
RunLines == {PlainLine, BackLine, NoSeparatorLine}

RunScripts ==
    {join(ls, <<"\n">>) : ls \in UNION {[1..n -> RunLines] : n \in 1..MaxLines}}

\* the target files of a driver run, of the bytes 0x41 and 0x4a
RunTargets == SeqsUpTo({65, 74}, MaxFile)

\* the argument counts the driver is started with
ArgCounts == {1, 2, 3}

\* process.exit(1)
ExitFailure == 1

\* main returns: the process ends with status 0
ExitSuccess == 0

\* mutant: the backup is not looked at before the parse
BackupFailedNever(result) == FALSE

\* !backupFile
BackupFailed(result) == result = "null"

\* mutant: a backup that exists is kept as it is
BackupKeptIfExists(exists, old, bytes) == IF exists THEN old ELSE bytes

\* the backup file after fs.copyFileSync(targetFilePath, backupFilePath)
BackupAfterCopy(exists, old, bytes) == bytes

\* the backup file after fs.copyFileSync threw: as it was, or created empty
AfterFailedCopy(exists, bytes) ==
    {[exists |-> exists, bytes |-> bytes], [exists |-> TRUE, bytes |-> <<>>]}

\* mutant: the argument count is not checked
WrongArgCountNever(count) == FALSE

\* args.length !== 2
WrongArgCount(count) == count # 2

\* main: the argument check; then createBackup(targetFilePath, '.bak')
CreateBackup ==
    /\ pc = "main_start"
    /\ IF WrongArgCount(argc)
       THEN /\ exitCode' = ExitFailure
            /\ pc' = "main_exit"
            /\ UNCHANGED <<backupFile, backupExists, backupBytes, trace>>
       ELSE /\ pc' = "backup_done"
            /\ UNCHANGED exitCode
            /\ IF ~IsFile(targetStatus)
               THEN /\ backupFile' = "null"
                    /\ trace' = Append(trace, "absent")
                    /\ UNCHANGED <<backupExists, backupBytes>>
               ELSE \E ok \in BOOLEAN :
                        IF ok
                        THEN /\ backupExists' = TRUE
                             /\ backupBytes' =
                                    BackupAfterCopy(backupExists, backupBytes, targetBytes)
                             /\ backupFile' = "path"
                             /\ trace' = Append(trace, "backup")
                        ELSE /\ \E left \in AfterFailedCopy(backupExists, backupBytes) :
                                    /\ backupExists' = left.exists
                                    /\ backupBytes' = left.bytes
                             /\ backupFile' = "null"
                             /\ trace' = Append(trace, "backupfail")
    /\ UNCHANGED <<replacements, engineVars, parserVars>>
    /\ UNCHANGED <<targetStatus, targetBytes, scriptStatus, scriptText, fileResult,
                   argc, runs, startBytes, initialBytes>>

\* main after createBackup: abort on a failed backup, else call parse
MainParse ==
    /\ pc = "backup_done"
    /\ IF BackupFailed(backupFile)
       THEN /\ exitCode' = ExitFailure
            /\ pc' = "main_exit"
       ELSE /\ pc' = "parse_file"
            /\ UNCHANGED exitCode
    /\ UNCHANGED <<replacements, engineVars, parserVars>>
    /\ UNCHANGED <<targetStatus, targetBytes, backupExists, backupBytes, scriptStatus,
                   scriptText, backupFile, fileResult, argc, runs, startBytes, initialBytes, trace>>

\* XscParser.parse up to parseString: the check of the path and the read
ParseFile ==
    /\ pc = "parse_file"
    /\ IF ~IsFile(scriptStatus)
       THEN /\ returned' = "null"
            /\ pc' = "parse_done"
            /\ trace' = Append(trace, "noscript")
            /\ UNCHANGED content
       ELSE \E ok \in BOOLEAN :
                IF ok
                THEN /\ content' = scriptText
                     /\ pc' = "parse_start"
                     /\ trace' = Append(trace, "script")
                     /\ UNCHANGED returned
                ELSE /\ returned' = "null"
                     /\ pc' = "parse_done"
                     /\ trace' = Append(trace, "scriptfail")
                     /\ UNCHANGED content
    /\ UNCHANGED <<replacements, lines, index, warnings, impl, targetBuffer, ruleIndex,
                   startIndex, currentReplacedInPair, totalReplacedCount,
                   modificationMade, originalLength, entryBuffer, passBuffer,
                   matched, ruleCounts>>
    /\ UNCHANGED <<targetStatus, targetBytes, backupExists, backupBytes, scriptStatus,
                   scriptText, backupFile, fileResult, exitCode, argc, runs,
                   startBytes, initialBytes>>

\* main after parse: abort on null, else call applyToFile
MainApply ==
    /\ pc = "parse_done"
    /\ IF returned = "null"
       THEN /\ exitCode' = ExitFailure
            /\ pc' = "main_exit"
       ELSE /\ pc' = "file_start"
            /\ UNCHANGED exitCode
    /\ UNCHANGED <<replacements, engineVars, parserVars>>
    /\ UNCHANGED <<targetStatus, targetBytes, backupExists, backupBytes, scriptStatus,
                   scriptText, backupFile, fileResult, argc, runs, startBytes, initialBytes, trace>>

\* mutant: the result of applyToFile is not looked at
ExitStatusIgnoringResult(success) == ExitSuccess

\* if (success) ... else process.exit(1)
ExitStatus(success) == IF success = "true" THEN ExitSuccess ELSE ExitFailure

\* main after applyToFile: the final status
MainStatus ==
    /\ pc = "file_done"
    /\ exitCode' = ExitStatus(fileResult)
    /\ pc' = "main_exit"
    /\ UNCHANGED <<replacements, engineVars, parserVars>>
    /\ UNCHANGED <<targetStatus, targetBytes, backupExists, backupBytes, scriptStatus,
                   scriptText, backupFile, fileResult, argc, runs, startBytes, initialBytes, trace>>

\* the process has ended and the driver is started again on the same paths
NextRun ==
    /\ pc = "main_exit"
    /\ runs < MaxRuns
    /\ runs' = runs + 1
    /\ argc' \in ArgCounts
    /\ pc' = "main_start"
    /\ exitCode' = -1
    /\ backupFile' = "none"
    /\ fileResult' = "none"
    /\ startBytes' = targetBytes
    /\ trace' = <<>>
    /\ replacements' = <<>>
    /\ returned' = "none"
    /\ targetBuffer' = <<>>
    /\ entryBuffer' = <<>>
    /\ passBuffer' = <<>>
    /\ ruleIndex' = 0
    /\ startIndex' = 0
    /\ currentReplacedInPair' = 0
    /\ totalReplacedCount' = 0
    /\ modificationMade' = FALSE
    /\ originalLength' = 0
    /\ matched' = <<>>
    /\ ruleCounts' = <<>>
    /\ content' = <<>>
    /\ lines' = <<>>
    /\ index' = 0
    /\ warnings' = <<>>
    /\ UNCHANGED <<impl, targetStatus, targetBytes, backupExists, backupBytes,
                   scriptStatus, scriptText, initialBytes>>

InitRun ==
    /\ pc = "main_start"
    /\ impl = "node"
    /\ argc \in ArgCounts
    /\ runs = 1
    /\ targetStatus \in PathStatuses
    /\ targetBytes \in (IF IsFile(targetStatus) THEN RunTargets ELSE {<<>>})
    /\ scriptStatus \in PathStatuses
    /\ scriptText \in (IF IsFile(scriptStatus) THEN RunScripts ELSE {<<>>})
    /\ backupExists = FALSE
    /\ backupBytes = <<>>
    /\ startBytes = targetBytes
    /\ initialBytes = targetBytes
    /\ trace = <<>>
    /\ backupFile = "none"
    /\ fileResult = "none"
    /\ exitCode = -1
    /\ replacements = <<>>
    /\ returned = "none"
    /\ targetBuffer = <<>>
    /\ entryBuffer = <<>>
    /\ passBuffer = <<>>
    /\ ruleIndex = 0
    /\ startIndex = 0
    /\ currentReplacedInPair = 0
    /\ totalReplacedCount = 0
    /\ modificationMade = FALSE
    /\ originalLength = 0
    /\ matched = <<>>
    /\ ruleCounts = <<>>
    /\ content = <<>>
    /\ lines = <<>>
    /\ index = 0
    /\ warnings = <<>>

NextRunStep ==
    \/ CreateBackup \/ MainParse \/ ParseFile
    \/ ParseStart \/ ParseLine \/ ParseFinish
    \/ MainApply \/ FileRead
    \/ ApplyStart \/ RuleMatch \/ RuleDone \/ ApplyFinish
    \/ FileWrite \/ MainStatus \/ NextRun

\* up to MaxRuns runs of the driver on every target and script within the bounds
SpecRun == InitRun /\ [][NextRunStep]_vars

----------------------------------------------------------------------------
(* Properties of the patch engine.                                         *)

\* pattern occurs in buffer at offset i
Occurs(buffer, pattern, i) ==
    /\ i >= 0
    /\ i + Len(pattern) <= Len(buffer)
    /\ SubSeq(buffer, i + 1, i + Len(pattern)) = pattern

OccursAnywhere(buffer, pattern) ==
    \E i \in 0..Len(buffer) : Occurs(buffer, pattern, i)

\* the offsets a left-to-right greedy scan of buffer picks: the lowest
\* occurrence at or after from, then the lowest at or after its end, ...
RECURSIVE GreedyOffsets(_, _, _)
GreedyOffsets(buffer, pattern, from) ==
    LET later == {i \in from..Len(buffer) : Occurs(buffer, pattern, i)}
    IN  IF later = {} THEN <<>>
        ELSE <<Min(later)>> \o GreedyOffsets(buffer, pattern, Min(later) + Len(pattern))

\* buffer with replace written at each of the offsets
Patched(buffer, replace, offsets) ==
    [k \in 1..Len(buffer) |->
        IF \E n \in 1..Len(offsets) : offsets[n] < k /\ k <= offsets[n] + Len(replace)
        THEN LET n == CHOOSE n \in 1..Len(offsets) :
                          offsets[n] < k /\ k <= offsets[n] + Len(replace)
             IN  replace[k - offsets[n]]
        ELSE buffer[k]]

\* a rule as the parser produces it: find not empty, replace as long
ValidRule(rule) == Len(rule.find) > 0 /\ Len(rule.find) = Len(rule.replace)

\* a RuleSet: every rule is valid
ValidRuleSet(rules) == \A n \in 1..Len(rules) : ValidRule(rules[n])

\* C1: for every rule list, of valid rules or not, the buffer keeps the
\* length it had at entry in every state of the call, after any number of
\* matches and rule passes, and a finished call has returned that buffer.
BufferLengthPreserved ==
    /\ Len(targetBuffer) = Len(entryBuffer)
    /\ pc = "apply_done" => returned = "buffer"

\* a finished call of two or more rules that changed the buffer
BufferLengthPreservedWitness ==
    /\ pc = "apply_done"
    /\ Len(replacements) >= 2
    /\ targetBuffer # entryBuffer
    /\ \A n \in 1..Len(ruleCounts) : ruleCounts[n] > 0

\* C3: during the pass of a rule with len(find) = len(replace) the offsets
\* matched so far are the first offsets of the greedy left-to-right scan of
\* the buffer as it was when the pass began, the buffer is that buffer with
\* replace written at exactly those offsets, and when the loop ends every
\* greedy offset was matched.
GreedyNonOverlappingPass ==
    (pc = "apply_scan" /\ ValidRule(CurrentRule)) =>
        LET greedy == GreedyOffsets(passBuffer, CurrentRule.find, 0)
        IN  /\ Len(matched) <= Len(greedy)
            /\ matched = SubSeq(greedy, 1, Len(matched))
            /\ \A n \in 1..(Len(matched) - 1) :
                   matched[n + 1] >= matched[n] + Len(CurrentRule.find)
            /\ currentReplacedInPair = Len(matched)
            /\ targetBuffer = Patched(passBuffer, CurrentRule.replace, matched)
            /\ LoopExits => matched = greedy

\* buffer AAAA, rule AA -> BB: the pass is over with two matches and BBBB
GreedyNonOverlappingPassWitness ==
    /\ LoopExits
    /\ passBuffer = <<65, 65, 65, 65>>
    /\ CurrentRule.find = <<65, 65>>
    /\ CurrentRule.replace = <<66, 66>>
    /\ matched = <<0, 2>>
    /\ currentReplacedInPair = 2
    /\ targetBuffer = <<66, 66, 66, 66>>

\* C4: rule j begins on the buffer that the single-rule passes of rules
\* 1..j-1, applied one after the other to the entry buffer, produce, and the
\* finished call leaves the bytes that the passes of all rules produce.
SequentialRuleOrder ==
    /\ pc = "apply_scan" =>
           LET before == ApplyRules(impl, entryBuffer,
                                    SubSeq(replacements, 1, ruleIndex - 1))
           IN  ~before.threw /\ passBuffer = before.buffer
    /\ pc = "apply_done" =>
           LET all == ApplyRules(impl, entryBuffer, replacements)
           IN  ~all.threw /\ targetBuffer = all.buffer

\* the second rule matched where its find did not occur in the entry buffer
SequentialRuleOrderWitness ==
    /\ pc = "apply_done"
    /\ Len(replacements) = 2
    /\ ~OccursAnywhere(entryBuffer, replacements[2].find)
    /\ ruleCounts = <<1, 1>>
    /\ targetBuffer # entryBuffer
    /\ replacements[1].replace = replacements[2].find

\* the spec's precondition of idempotence
IdempotencePrecondition ==
    /\ \A n \in 1..Len(replacements) :
           replacements[n].find # replacements[n].replace
    /\ \A n \in 1..Len(replacements) : \A m \in (n + 1)..Len(replacements) :
           replacements[n].replace # replacements[m].find

\* C7 as stated: for a RuleSet with find # replace in every rule and no
\* rule's replace equal to a later rule's find, a second application
\* changes nothing.
IdempotentAsStated ==
    (pc = "apply_done" /\ ValidRuleSet(replacements) /\ IdempotencePrecondition) =>
        ApplyRules(impl, targetBuffer, replacements).buffer = targetBuffer

\* C7 amended: when no rule's find occurs in the once-patched buffer, a
\* second application of the rule list leaves every byte as it is.
IdempotentWhenNoFindRemains ==
    (pc = "apply_done"
        /\ \A n \in 1..Len(replacements) :
               ~OccursAnywhere(targetBuffer, replacements[n].find)) =>
        ApplyRules(impl, targetBuffer, replacements)
            = [buffer |-> targetBuffer, threw |-> FALSE]

\* a call that changed the buffer and left no find sequence in it
IdempotentWhenNoFindRemainsWitness ==
    /\ pc = "apply_done"
    /\ Len(replacements) >= 1
    /\ targetBuffer # entryBuffer
    /\ ValidRuleSet(replacements)
    /\ IdempotencePrecondition
    /\ \A n \in 1..Len(replacements) :
           ~OccursAnywhere(targetBuffer, replacements[n].find)

\* C8: when no rule's find occurs in the buffer at the call, the finished
\* call reports zero matches for every rule and in total, reports the
\* buffer unmodified, and the buffer holds the bytes it held at entry.
NoOccurrenceNoOp ==
    (pc = "apply_done"
        /\ \A n \in 1..Len(replacements) :
               ~OccursAnywhere(entryBuffer, replacements[n].find)) =>
        /\ \A n \in 1..Len(ruleCounts) : ruleCounts[n] = 0
        /\ Len(replacements) > 0 => Len(ruleCounts) = Len(replacements)
        /\ totalReplacedCount = 0
        /\ modificationMade = FALSE
        /\ targetBuffer = entryBuffer
        /\ returned = "buffer"

\* a finished call of two rules, neither occurring in a non-empty buffer
NoOccurrenceNoOpWitness ==
    /\ pc = "apply_done"
    /\ Len(replacements) = 2
    /\ Len(entryBuffer) >= 2
    /\ \A n \in 1..Len(replacements) :
           ~OccursAnywhere(entryBuffer, replacements[n].find)
    /\ ruleCounts = <<0, 0>>

\* C14: a call that has returned gave null when the buffer's length differs
\* from its length at entry and the buffer otherwise, whatever the match
\* counts; a call that has not returned has given nothing; and a call with
\* a RuleSet does return, it does not end in an exception.
FatalIffLengthChanged ==
    /\ pc = "apply_done" =>
           returned = IF Len(targetBuffer) # Len(entryBuffer) THEN "null" ELSE "buffer"
    /\ pc # "apply_done" => returned = "none"
    /\ ValidRuleSet(replacements) => pc # "apply_threw"

\* a call of two rules on a non-empty buffer, no match: the buffer is returned
FatalIffLengthChangedWitness ==
    /\ pc = "apply_done"
    /\ returned = "buffer"
    /\ Len(entryBuffer) > 0
    /\ Len(ruleCounts) = 2
    /\ totalReplacedCount = 0
    /\ ~modificationMade
    /\ targetBuffer = entryBuffer

\* a pass of a rule of equal lengths is under way
ValidPass == pc = "apply_scan" /\ ValidRule(CurrentRule)

\* C18: every call ends, with a RuleSet by returning; in the pass of a rule
\* of equal lengths each match moves the cursor up, by len(find) at least,
\* and never past the buffer's end, so the pass counts at most
\* floor(N / len(find)) matches; and a returned call of a non-empty list has
\* made one pass for each rule.
ApplyTerminates ==
    /\ <>(pc \in {"apply_done", "apply_threw"})
    /\ [](ValidRuleSet(replacements) => pc # "apply_threw")
    /\ [][(ValidPass /\ currentReplacedInPair' = currentReplacedInPair + 1) =>
              /\ startIndex' >= startIndex + Len(CurrentRule.find)
              /\ startIndex' <= Len(targetBuffer)]_vars
    /\ [](ValidPass =>
              /\ startIndex <= Len(targetBuffer)
              /\ currentReplacedInPair * Len(CurrentRule.find) <= Len(targetBuffer))
    /\ []((pc = "apply_done" /\ Len(replacements) > 0) =>
              Len(ruleCounts) = Len(replacements))

\* a returned call of two rules whose first pass matched at every byte
ApplyTerminatesWitness ==
    /\ pc = "apply_done"
    /\ ValidRuleSet(replacements)
    /\ Len(replacements) = 2
    /\ Len(entryBuffer) = MaxBuf
    /\ ruleCounts[1] = MaxBuf

\* C22: a call with an empty rule list goes from its entry straight to its
\* return, the buffer holds the bytes it held at entry all along, no pass
\* is made and no match counted, and what is returned is the buffer.
EmptyRuleSetIsNoOp ==
    Len(replacements) = 0 =>
        /\ pc \in {"apply_start", "apply_done"}
        /\ targetBuffer = entryBuffer
        /\ ruleCounts = <<>>
        /\ matched = <<>>
        /\ totalReplacedCount = 0
        /\ ~modificationMade
        /\ returned = IF pc = "apply_done" THEN "buffer" ELSE "none"

\* the call with no rule on a buffer of MaxBuf bytes has returned
EmptyRuleSetIsNoOpWitness ==
    /\ pc = "apply_done"
    /\ replacements = <<>>
    /\ Len(targetBuffer) = MaxBuf
    /\ returned = "buffer"

\* C23: from no cursor do the loops of findSubarray index the buffer outside
\* [0, N); in the pass of a rule of equal lengths a cursor with fewer than
\* len(find) bytes after it ends the loop with no match, the cursor never
\* passes N, every match was written inside [0, N), and the call of a
\* RuleSet raises no error.
NoMatchPastEnd ==
    /\ \A n \in 1..Len(replacements) : \A from \in 0..Len(targetBuffer) :
           ReadOffsets(targetBuffer, replacements[n].find, from)
               \subseteq 0..(Len(targetBuffer) - 1)
    /\ ValidPass =>
           /\ startIndex <= Len(targetBuffer)
           /\ startIndex + Len(CurrentRule.find) > Len(targetBuffer) => LoopExits
           /\ \A n \in 1..Len(matched) :
                  matched[n] >= 0
                      /\ matched[n] + Len(CurrentRule.replace) <= Len(targetBuffer)
    /\ ValidRuleSet(replacements) => pc # "apply_threw"

\* a rule of two bytes matched at the very end of a buffer of MaxBuf bytes:
\* the cursor is N and the loop ends
NoMatchPastEndWitness ==
    /\ ValidPass
    /\ Len(CurrentRule.find) = 2
    /\ Len(targetBuffer) = MaxBuf
    /\ startIndex = Len(targetBuffer)
    /\ matched[Len(matched)] = MaxBuf - 2
    /\ LoopExits

\* the sum of a list of counts
RECURSIVE SumOf(_)
SumOf(counts) == IF counts = <<>> THEN 0 ELSE Head(counts) + SumOf(Tail(counts))

\* C26: with a RuleSet the two engines agree: at each turn of a pass the
\* two searches give the same offset, and the returned call has left the
\* bytes and counted the matches, rule by rule and in total, that each of
\* the engines makes of the entry buffer.
EnginesAgree ==
    ValidRuleSet(replacements) =>
        /\ pc = "apply_scan" =>
               findSubarray(targetBuffer, CurrentRule.find, startIndex)
                   = indexOf(targetBuffer, CurrentRule.find, startIndex)
        /\ pc = "apply_done" =>
               /\ ApplyRules("core", entryBuffer, replacements)
                      = [buffer |-> targetBuffer, threw |-> FALSE]
               /\ ApplyRules("node", entryBuffer, replacements)
                      = [buffer |-> targetBuffer, threw |-> FALSE]
               /\ CountRules("core", entryBuffer, replacements) = ruleCounts
               /\ CountRules("node", entryBuffer, replacements) = ruleCounts
               /\ totalReplacedCount = SumOf(ruleCounts)

\* the Node engine has returned from two rules, the second matching at the
\* last byte of the buffer
EnginesAgreeWitness ==
    /\ pc = "apply_done"
    /\ impl = "node"
    /\ ValidRuleSet(replacements)
    /\ Len(ruleCounts) = 2
    /\ ruleCounts[2] > 0
    /\ Len(entryBuffer) = MaxBuf
    /\ targetBuffer[MaxBuf] # entryBuffer[MaxBuf]

\* C28: in a call with rules of equal lengths the buffer has N bytes in
\* every state, each match of the pass under way was written inside
\* [0, N), the length check after the last rule finds nothing changed, and
\* null is never returned.
FatalBranchUnreachable ==
    ValidRuleSet(replacements) =>
        /\ Len(targetBuffer) = Len(entryBuffer)
        /\ pc \in {"apply_scan", "apply_check"} => originalLength = Len(entryBuffer)
        /\ pc = "apply_scan" =>
               \A n \in 1..Len(matched) :
                   /\ 0 <= matched[n]
                   /\ matched[n] + Len(CurrentRule.replace) <= Len(entryBuffer)
        /\ pc = "apply_check" => ~LengthChanged(Len(targetBuffer), originalLength)
        /\ returned # "null"
        /\ pc # "apply_threw"

\* the length check is reached after a pass that rewrote the whole buffer
FatalBranchUnreachableWitness ==
    /\ pc = "apply_check"
    /\ ValidRuleSet(replacements)
    /\ Len(entryBuffer) = MaxBuf
    /\ \A k \in 1..MaxBuf : targetBuffer[k] # entryBuffer[k]
    /\ originalLength = MaxBuf

----------------------------------------------------------------------------
(* Properties of the script parser.  The script's lines and the shape of   *)
(* an instruction are stated here on the text itself.                      *)

Max(S) == CHOOSE x \in S : \A y \in S : x >= y

\* the positions of the line feeds of a text
LineFeeds(text) == {k \in 1..Len(text) : text[k] = "\n"}

ScriptLineCount(text) == Cardinality(LineFeeds(text)) + 1

\* the i-th line of a text, 1-based: what lies between the line feeds i - 1
\* and i; a carriage return before the line feed stays at its end and is
\* whitespace
ScriptLine(text, i) ==
    LET feeds == LineFeeds(text)
        feedAt(n) == CHOOSE k \in feeds : Cardinality({j \in feeds : j < k}) = n - 1
    IN  SubSeq(text,
               IF i = 1 THEN 1 ELSE feedAt(i - 1) + 1,
               IF i = Cardinality(feeds) + 1 THEN Len(text) ELSE feedAt(i) - 1)

\* a line without its surrounding whitespace
Core(line) ==
    LET solid == {k \in 1..Len(line) : line[k] \notin Whitespace}
    IN  IF solid = {} THEN <<>> ELSE SubSeq(line, Min(solid), Max(solid))

HexDigitChars == {LowerDigits[d] : d \in 1..16} \cup {UpperDigits[d] : d \in 1..16}

NoSpaces(segment) == SelectSeq(segment, LAMBDA c : c # " ")

\* two hex digits per byte, upper and lower case alike
DecodedBytes(segment) ==
    LET digits == NoSpaces(segment)
        valueOf(c) == CHOOSE v \in 0..15 : c \in {LowerDigits[v + 1], UpperDigits[v + 1]}
    IN  [n \in 1..(Len(digits) \div 2) |->
            16 * valueOf(digits[2 * n - 1]) + valueOf(digits[2 * n])]

\* the shape of a line: whether it begins, after trimming, with REPLACEALL
\* and a space; how many times ' BY ' begins in what follows; and the
\* segments before and after the first ' BY '
LineShape(line) ==
    LET core == Core(line)
        prefixed == Len(core) >= Len(Prefix) /\ SubSeq(core, 1, Len(Prefix)) = Prefix
        at == IF prefixed
              THEN {k \in (Len(Prefix) + 1)..(Len(core) - 3) :
                       SubSeq(core, k, k + 3) = BySeparator}
              ELSE {}
    IN  [prefixed |-> prefixed,
         separators |-> Cardinality(at),
         findSegment |-> IF at = {} THEN <<>>
                         ELSE SubSeq(core, Len(Prefix) + 1, Min(at) - 1),
         replaceSegment |-> IF at = {} THEN <<>>
                            ELSE SubSeq(core, Min(at) + 4, Len(core))]

\* a segment of hex digits and spaces holding whole bytes, at least one
HexSegment(segment) ==
    /\ \A n \in 1..Len(segment) : segment[n] = " " \/ segment[n] \in HexDigitChars
    /\ Len(NoSpaces(segment)) > 0
    /\ Len(NoSpaces(segment)) % 2 = 0

\* the shape of REPLACEALL <hex> BY <hex> with both hex strings decoding
HexInstruction(shape) ==
    /\ shape.prefixed
    /\ shape.separators = 1
    /\ HexSegment(shape.findSegment)
    /\ HexSegment(shape.replaceSegment)

\* REPLACEALL <hex> BY <hex> decoding to byte sequences of equal length
ValidInstruction(line) ==
    LET shape == LineShape(line)
    IN  /\ HexInstruction(shape)
        /\ Len(NoSpaces(shape.findSegment)) = Len(NoSpaces(shape.replaceSegment))

\* REPLACEALL <hex> BY <hex> decoding to byte sequences of different lengths
MismatchedInstruction(line) ==
    LET shape == LineShape(line)
    IN  /\ HexInstruction(shape)
        /\ Len(NoSpaces(shape.findSegment)) # Len(NoSpaces(shape.replaceSegment))

\* a REPLACEALL line with one ' BY ' and a character that is no hex digit
\* in a segment, spaces aside
NonHexInstruction(line) ==
    LET shape == LineShape(line)
        chars == NoSpaces(shape.findSegment) \o NoSpaces(shape.replaceSegment)
    IN  /\ shape.prefixed
        /\ shape.separators = 1
        /\ \E n \in 1..Len(chars) : chars[n] \notin HexDigitChars

\* the rules of the result that carry line number i
RulesOfLine(i) == SelectSeq(replacements, LAMBDA rule : rule.lineNumber = i)

\* C2: at every point of the parse each rule collected so far has a
\* non-empty find and a non-empty replace of the same length, and the hex
\* strings of the line it came from hold as many characters as each other
\* and two for each byte of the rule.
ParsedRulesEqualLength ==
    \A n \in 1..Len(replacements) :
        LET rule == replacements[n]
            shape == LineShape(ScriptLine(content, rule.lineNumber))
        IN  /\ Len(rule.find) > 0
            /\ Len(rule.replace) > 0
            /\ Len(rule.find) = Len(rule.replace)
            /\ shape.separators >= 1
            /\ Len(NoSpaces(shape.findSegment)) = 2 * Len(rule.find)
            /\ Len(NoSpaces(shape.replaceSegment)) = 2 * Len(rule.replace)

\* a finished parse that skipped a length mismatch on line 1 and kept the
\* rule 41 -> 4a of line 2
ParsedRulesEqualLengthWitness ==
    /\ pc = "parse_done"
    /\ warnings = <<<<1, "mismatch">>>>
    /\ replacements = <<[find |-> <<65>>, replace |-> <<74>>, lineNumber |-> 2]>>

\* C5: in the finished parse every line REPLACEALL <hex> BY <hex> of equal
\* decoded lengths has exactly one rule, whose find and replace are the
\* decoded bytes and whose lineNumber is the line's 1-based index.
ValidLineYieldsItsRule ==
    pc = "parse_done" =>
        \A i \in 1..ScriptLineCount(content) :
            LET line == ScriptLine(content, i)
                shape == LineShape(line)
            IN  ValidInstruction(line) =>
                    RulesOfLine(i) =
                        <<[find |-> DecodedBytes(shape.findSegment),
                           replace |-> DecodedBytes(shape.replaceSegment),
                           lineNumber |-> i]>>

\* line 2 is REPLACEALL 4A 41 BY 4A 41 and gave the rule 4A41 -> 4A41, line 2
ValidLineYieldsItsRuleWitness ==
    /\ pc = "parse_done"
    /\ ScriptLineCount(content) = 2
    /\ ValidInstruction(ScriptLine(content, 2))
    /\ LineShape(ScriptLine(content, 2)).findSegment = <<"4", "A", " ", "4", "1">>
    /\ RulesOfLine(2) = <<[find |-> <<74, 65>>, replace |-> <<74, 65>>, lineNumber |-> 2]>>

\* the text with every line that is no valid instruction made a blank line
Blanked(text) ==
    join([i \in 1..ScriptLineCount(text) |->
             IF ValidInstruction(ScriptLine(text, i)) THEN ScriptLine(text, i) ELSE <<>>],
         <<"\n">>)

ValidLineNumbers(text) ==
    {i \in 1..ScriptLineCount(text) : ValidInstruction(ScriptLine(text, i))}

\* C6: the parse visits every line and returns, and the rules it returns
\* for the valid instruction lines, bytes and line numbers, are the rules
\* parseString returns for the script with all other lines blanked.
MalformedLinesLeaveOthersAlone ==
    pc = "parse_done" =>
        /\ returned = "rules"
        /\ index = Len(lines)
        /\ SelectSeq(replacements,
                     LAMBDA rule : rule.lineNumber \in ValidLineNumbers(content))
               = parseString(Blanked(content))

\* 'REPLACEALL 4142' was skipped with a warning and line 2 gave its rule
MalformedLinesLeaveOthersAloneWitness ==
    /\ pc = "parse_done"
    /\ ScriptLineCount(content) = 2
    /\ Core(ScriptLine(content, 1)) = Prefix \o <<"4", "1", "4", "2">>
    /\ warnings = <<<<1, "format">>>>
    /\ replacements = <<[find |-> <<65>>, replace |-> <<74>>, lineNumber |-> 2]>>

\* C9: in the finished parse a line whose hex strings decode to different
\* lengths has no rule, so the rule count is at most the number of the
\* other lines.
MismatchedLineYieldsNoRule ==
    pc = "parse_done" =>
        /\ \A i \in 1..ScriptLineCount(content) :
               MismatchedInstruction(ScriptLine(content, i)) => RulesOfLine(i) = <<>>
        /\ Len(replacements) <=
               Cardinality({i \in 1..ScriptLineCount(content) :
                               ~MismatchedInstruction(ScriptLine(content, i))})

\* the script is the one line REPLACEALL 41 BY 4A 41 and the result is empty
MismatchedLineYieldsNoRuleWitness ==
    /\ pc = "parse_done"
    /\ content = Prefix \o <<"4", "1">> \o BySeparator \o <<"4", "A", " ", "4", "1">>
    /\ replacements = <<>>
    /\ warnings = <<<<1, "mismatch">>, <<0, "norules">>>>

\* C10 as stated: in the finished parse a REPLACEALL line with a character
\* that is no hex digit in its find or replace segment has no rule.
NonHexLineYieldsNoRule ==
    pc = "parse_done" =>
        \A i \in 1..ScriptLineCount(content) :
            NonHexInstruction(ScriptLine(content, i)) => RulesOfLine(i) = <<>>

\* a REPLACEALL line with one ' BY ' and two non-empty segments of which
\* one holds, spaces aside, an odd number of characters
OddInstruction(line) ==
    LET shape == LineShape(line)
        findChars == Len(NoSpaces(shape.findSegment))
        replaceChars == Len(NoSpaces(shape.replaceSegment))
    IN  /\ shape.prefixed
        /\ shape.separators = 1
        /\ findChars > 0
        /\ replaceChars > 0
        /\ findChars % 2 = 1 \/ replaceChars % 2 = 1

\* the diagnostics of the parse that name line i
WarningsOfLine(i) == SelectSeq(warnings, LAMBDA warning : warning[1] = i)

\* C11: in the finished parse a REPLACEALL line with an odd number of
\* characters in its find or replace segment has no rule and the one
\* warning of a failed decode, and the loop went on over every line after
\* it: each later valid instruction line has its rule.
OddLengthIsDecodeFailure ==
    pc = "parse_done" =>
        \A i \in 1..ScriptLineCount(content) :
            OddInstruction(ScriptLine(content, i)) =>
                /\ RulesOfLine(i) = <<>>
                /\ WarningsOfLine(i) = <<<<i, "hex">>>>
                /\ index = Len(lines)
                /\ \A j \in (i + 1)..ScriptLineCount(content) :
                       ValidInstruction(ScriptLine(content, j)) =>
                           Len(RulesOfLine(j)) = 1

\* line 1 is REPLACEALL 4 BY 4: a decode failure; line 2 gave its rule
OddLengthIsDecodeFailureWitness ==
    /\ pc = "parse_done"
    /\ ScriptLineCount(content) = 2
    /\ Core(ScriptLine(content, 1)) = Prefix \o <<"4">> \o BySeparator \o <<"4">>
    /\ warnings = <<<<1, "hex">>>>
    /\ replacements = <<[find |-> <<65>>, replace |-> <<74>>, lineNumber |-> 2]>>

----------------------------------------------------------------------------
(* Properties of the file entry points and the driver.                     *)

\* the file operations of the trace that wrote, or tried to write, the target
WriteEvents == {"write", "writefail"}

TargetWrites == SelectSeq(trace, LAMBDA event : event \in WriteEvents)

\* applyToBuffer is running
Patching == pc \in {"apply_start", "apply_scan", "apply_check"}

\* this step writes, or tries to write, the target
WritesTarget == \E event \in WriteEvents : trace' = Append(trace, event)

\* C12: the target is written at most once and only by a step taken after
\* applyToBuffer has returned a buffer for the bytes that were read; its
\* bytes on disk change in no other step, so they are the bytes at the call
\* before and during patching and after a fatal signal; and a call that
\* reports success has left on disk what the rules make of the bytes read.
ReadPatchCheckWrite ==
    /\ [](/\ Len(TargetWrites) <= 1
          /\ Patching => (trace = <<"read">> /\ targetBytes = startBytes)
          /\ FatalSignal(returned) => (TargetWrites = <<>> /\ targetBytes = startBytes)
          /\ TargetWrites # <<>> =>
                 (pc = "file_done" /\ trace = <<"read">> \o TargetWrites)
          /\ (fileResult = "true" /\ Len(replacements) > 0) =>
                 targetBytes = ApplyRules(impl, startBytes, replacements).buffer)
    /\ [][WritesTarget =>
              (pc = "apply_done" /\ returned = "buffer" /\ trace = <<"read">>)]_vars
    /\ [][targetBytes' # targetBytes => WritesTarget]_vars

\* a call that read the target, patched it and wrote changed bytes back
ReadPatchCheckWriteWitness ==
    /\ pc = "file_done"
    /\ trace = <<"read", "write">>
    /\ fileResult = "true"
    /\ Len(ruleCounts) = 2
    /\ targetBytes # startBytes
    /\ targetBytes = targetBuffer

\* the event occurs in the trace of the run
Happened(event) == \E n \in 1..Len(trace) : trace[n] = event

\* the run is past createBackup and main's check of its result
PastBackup ==
    pc \in {"parse_file", "parse_start", "parse_loop", "parse_done", "file_start",
            "apply_start", "apply_scan", "apply_check", "apply_done", "file_done"}

\* C13: in every run a write to the target, and every step of parsing and
\* patching, comes after a copy of the target to the backup that succeeded
\* and left the target's bytes in it; after a failed backup the run
\* only exits, with failure status, and the target holds the bytes it had.
BackupBeforeWrite ==
    /\ (TargetWrites # <<>> \/ PastBackup) =>
           (trace[1] = "backup" /\ backupFile = "path" /\ backupExists
               /\ backupBytes = startBytes)
    /\ BackupFailed(backupFile) =>
           /\ pc \in {"backup_done", "main_exit"}
           /\ pc = "main_exit" => exitCode = ExitFailure
           /\ TargetWrites = <<>>
           /\ targetBytes = startBytes
           /\ ~Happened("read")
           /\ ruleCounts = <<>>

\* the copy of an existing target failed and the run ended with status 1
BackupBeforeWriteWitness ==
    /\ pc = "main_exit"
    /\ trace = <<"backupfail">>
    /\ exitCode = ExitFailure
    /\ IsFile(scriptStatus)
    /\ targetBytes = <<65>>

\* C15 as stated: whatever the rule list, a finished applyToFile call whose
\* target was missing, not a regular file or could not be read has returned
\* false and has written nothing.
AbsentTargetReportsFailure ==
    (pc = "file_done" /\ (targetStatus # "file" \/ Happened("readfail"))) =>
        /\ fileResult = "false"
        /\ TargetWrites = <<>>
        /\ targetBytes = startBytes

\* C16: parse has returned null exactly when the script path is missing or
\* not a regular file or the read threw; after a read that succeeded it has
\* returned the rule list parseString gives for the text of the file, an
\* empty list just as well.
ParseNullIffNoScript ==
    pc = "parse_done" =>
        /\ returned \in {"null", "rules"}
        /\ returned = "null" <=> (scriptStatus # "file" \/ Happened("scriptfail"))
        /\ returned = "rules" =>
               (Happened("script") /\ replacements = parseString(scriptText))

\* a readable script of two malformed lines: an empty list, not null
ParseNullIffNoScriptWitness ==
    /\ pc = "parse_done"
    /\ scriptStatus = "file"
    /\ returned = "rules"
    /\ replacements = <<>>
    /\ warnings = <<<<1, "format">>, <<2, "format">>, <<0, "norules">>>>

\* C17: once the write of the patched bytes has failed, applyToFile has
\* returned false, the run ends with failure status, and the backup exists
\* and holds the bytes the target had when the run began.
WriteFailureKeepsBackup ==
    Happened("writefail") =>
        /\ pc \in {"file_done", "main_exit"}
        /\ fileResult = "false"
        /\ pc = "main_exit" => exitCode = ExitFailure
        /\ backupExists
        /\ backupBytes = startBytes

\* the write failed after a match, the target was left empty, the run ended
WriteFailureKeepsBackupWitness ==
    /\ pc = "main_exit"
    /\ trace = <<"backup", "script", "read", "writefail">>
    /\ exitCode = ExitFailure
    /\ ruleCounts = <<1>>
    /\ targetBytes = <<>>
    /\ backupBytes = <<65>>

\* a file could not be had in the run: the target or the script missing,
\* not a regular file or unreadable, the backup copy or the write failed
FileFailures == {"absent", "backupfail", "noscript", "scriptfail", "readfail", "writefail"}

FileFailure == \E event \in FileFailures : Happened(event)

\* applyToBuffer gave the fatal signal in the run
InvariantViolation == Happened("read") /\ FatalSignal(returned)

\* C19 as stated: a run that ended with failure status had a file failure
\* or an invariant violation; every other run ended with success status.
FailureOnlyByFileOrInvariant ==
    pc = "main_exit" =>
        /\ exitCode \in {ExitSuccess, ExitFailure}
        /\ exitCode = ExitFailure => (FileFailure \/ InvariantViolation)

\* C19 amended: a run ends with failure status exactly when it was given
\* an argument count other than two, had a file failure or an invariant
\* violation, and with success status otherwise, whatever lines were
\* skipped, rules parsed and matches made.
FailureOnlyByUsageFileOrInvariant ==
    pc = "main_exit" =>
        exitCode = IF argc # 2 \/ FileFailure \/ InvariantViolation
                   THEN ExitFailure ELSE ExitSuccess

\* a run that skipped line 1, parsed one rule, matched nothing: status 0
FailureOnlyByUsageFileOrInvariantWitness ==
    /\ pc = "main_exit"
    /\ exitCode = ExitSuccess
    /\ warnings = <<<<1, "format">>>>
    /\ Len(replacements) = 1
    /\ ruleCounts = <<0>>
    /\ trace = <<"backup", "script", "read", "write">>
    /\ targetBytes = startBytes

\* C20: every rule comes from a line that, trimmed, begins with REPLACEALL
\* and a space, and in the finished parse a line that does not (a blank
\* line, a comment, another directive, a lower-case prefix, REPLACEALL with
\* no space after it or with nothing after its space) has no rule and no
\* warning.
PrefixRequired ==
    /\ \A n \in 1..Len(replacements) :
           LineShape(ScriptLine(content, replacements[n].lineNumber)).prefixed
    /\ pc = "parse_done" =>
           \A i \in 1..ScriptLineCount(content) :
               ~LineShape(ScriptLine(content, i)).prefixed =>
                   (RulesOfLine(i) = <<>> /\ WarningsOfLine(i) = <<>>)

\* line 1 is 'replaceall 41 BY 4a': ignored; line 2 gave the only rule
PrefixRequiredWitness ==
    /\ pc = "parse_done"
    /\ ScriptLineCount(content) = 2
    /\ ScriptLine(content, 1) =
           <<"r", "e", "p", "l", "a", "c", "e", "a", "l", "l", " ", "4", "1">>
               \o BySeparator \o <<"4", "a">>
    /\ warnings = <<>>
    /\ replacements = <<[find |-> <<65>>, replace |-> <<74>>, lineNumber |-> 2]>>

\* C21 as stated: every rule comes from a REPLACEALL line in which ' BY '
\* appears exactly once, and in the finished parse a REPLACEALL line in
\* which it appears more than once or not at all has no rule.
OneSeparatorRequired ==
    /\ \A n \in 1..Len(replacements) :
           LineShape(ScriptLine(content, replacements[n].lineNumber)).separators = 1
    /\ pc = "parse_done" =>
           \A i \in 1..ScriptLineCount(content) :
               LET shape == LineShape(ScriptLine(content, i))
               IN  (shape.prefixed /\ shape.separators # 1) => RulesOfLine(i) = <<>>

\* C24: the line numbers of the rules collected so far increase strictly
\* through the list and lie within the script; the lines the loop visits
\* are, one for one, the stretches of the text between its line feeds, a
\* carriage return before the line feed not making a line of its own nor
\* staying in one; and the rule of a line REPLACEALL <hex> BY <hex> carries
\* that line's bytes.
RulesInLineOrder ==
    /\ \A n \in 1..Len(replacements) :
           /\ replacements[n].lineNumber \in 1..ScriptLineCount(content)
           /\ \A m \in (n + 1)..Len(replacements) :
                  replacements[n].lineNumber < replacements[m].lineNumber
           /\ LET shape == LineShape(ScriptLine(content, replacements[n].lineNumber))
              IN  HexInstruction(shape) =>
                      /\ replacements[n].find = DecodedBytes(shape.findSegment)
                      /\ replacements[n].replace = DecodedBytes(shape.replaceSegment)
    /\ pc # "parse_start" =>
           /\ Len(lines) = ScriptLineCount(content)
           /\ \A i \in 1..Len(lines) :
                  /\ Core(lines[i]) = Core(ScriptLine(content, i))
                  /\ \A k \in 1..Len(lines[i]) : lines[i][k] \notin {"\r", "\n"}

\* 'ADR 0' and a \r\n boundary before the instruction: its rule has line 2
RulesInLineOrderWitness ==
    /\ pc = "parse_done"
    /\ content = <<"A", "D", "R", " ", "0", "\r", "\n">> \o PlainLine
    /\ warnings = <<>>
    /\ replacements = <<[find |-> <<65>>, replace |-> <<74>>, lineNumber |-> 2]>>

\* a segment with a space put between every two hex digits that stand side
\* by side
RECURSIVE SpacedOut(_)
SpacedOut(segment) ==
    IF Len(segment) < 2 THEN segment
    ELSE <<segment[1]>>
             \o (IF segment[1] \in HexDigitChars /\ segment[2] \in HexDigitChars
                 THEN <<" ">> ELSE <<>>)
             \o SpacedOut(Tail(segment))

\* the line with its two segments rewritten
WithSegments(shape, rewrite(_)) ==
    Prefix \o rewrite(shape.findSegment) \o BySeparator \o rewrite(shape.replaceSegment)

\* the find and replace bytes of a rule list
BytesOf(rules) == [n \in 1..Len(rules) |-> <<rules[n].find, rules[n].replace>>]

\* C25 as stated: in the finished parse a REPLACEALL line with one ' BY '
\* has the rule, or none, that the line gets with every space taken out of
\* its segments and that it gets with a space put between every two
\* neighbouring hex digits of its segments.
SpacesInSegmentsIgnored ==
    pc = "parse_done" =>
        \A i \in 1..ScriptLineCount(content) :
            LET shape == LineShape(ScriptLine(content, i))
            IN  (shape.prefixed /\ shape.separators = 1) =>
                    /\ BytesOf(RulesOfLine(i))
                           = BytesOf(parseString(WithSegments(shape, NoSpaces)))
                    /\ BytesOf(RulesOfLine(i))
                           = BytesOf(parseString(WithSegments(shape, SpacedOut)))

\* C27: in a run whose createBackup succeeded the backup holds, from then
\* on, the bytes the target had when that run began; a later run begins
\* with the bytes the run before it left in the target, so its backup holds
\* those and not the bytes from before the first run.
BackupHoldsRunStart ==
    /\ [](Happened("backup") => (backupExists /\ backupBytes = startBytes))
    /\ [](runs = 1 => startBytes = initialBytes)
    /\ [][runs' # runs => (runs' = runs + 1 /\ startBytes' = targetBytes)]_vars

\* the second of two successful runs: the first patched A into J, and the
\* backup holds J
BackupHoldsRunStartWitness ==
    /\ pc = "main_exit"
    /\ runs = 2
    /\ exitCode = ExitSuccess
    /\ trace = <<"backup", "script", "read", "write">>
    /\ initialBytes = <<65>>
    /\ startBytes = <<74>>
    /\ backupBytes = <<74>>

====
